---------------------------- MODULE Spec2Model ----------------------------
(***************************************************************************)
(* Model of the calendar assistant: the free-slot finder                   *)
(* (CalendarService.suggest_time_slots) and the orchestrator's dispatch    *)
(* (CalendarAIAgent._execute_function), and the chat page of app.py with   *)
(* its session message history.                                            *)
(*                                                                         *)
(* Time is counted in minutes from midnight of the requested date; naive   *)
(* datetimes of the code are these integers.  A timestamp string is a      *)
(* record saying which textual form it has and, for an ISO form, the       *)
(* instant it spells.                                                      *)
(***************************************************************************)
EXTENDS Integers, Sequences, FiniteSets, TLC

VARIABLES
    function_name,   \* the action name handed to _execute_function
    arguments,       \* its argument dictionary (a record; absent keys are absent)
    gateway,         \* what the Calendar API answers to the call this request makes
    pc,              \* "call" before _execute_function runs, "done" after
    result           \* what _execute_function did: a returned dict or a raised error

VARIABLES
    messages,        \* st.session_state.messages
    ui_pc,           \* where the page's script stands: "idle" between runs
    in_progress,     \* calls of process_message started and not yet returned
    slots_shown      \* 'Book #i' buttons the running script has drawn

request == <<function_name, arguments, gateway, pc, result>>
session == <<messages, ui_pc, in_progress, slots_shown>>

vars == <<function_name, arguments, gateway, pc, result,
          messages, ui_pc, in_progress, slots_shown>>

\* A session before its first event: an empty history, no script running
SessionStart ==
    /\ messages = <<>>
    /\ ui_pc = "idle"
    /\ in_progress = 0
    /\ slots_shown = 0

-----------------------------------------------------------------------------
(* Bounds of the model and constants of the program *)

MaxBusy == 2
HourSpan == 2

DefaultDuration == 60
DefaultStartHour == 9
DefaultEndHour == 17
DefaultMaxResults == 10
MaxSlots == 5

Min(a, b) == IF a <= b THEN a ELSE b

\* Hours offered as preferred_start_hour / preferred_end_hour
WindowHours == DefaultStartHour .. (DefaultStartHour + HourSpan)

\* Instants at which a calendar event may start or end: the whole hours from
\* the first window hour to one hour after the last
Times == {h * 60 : h \in DefaultStartHour .. (DefaultStartHour + HourSpan + 1)}

Durations == {DefaultDuration, 2 * DefaultDuration}

-----------------------------------------------------------------------------
(* Outcomes of a Python call *)

Return(v) == [kind |-> "return", value |-> v]
Raise(msg) == [kind |-> "raise", error |-> msg]

Has(d, k) == k \in DOMAIN d

-----------------------------------------------------------------------------
(* Timestamp strings *)

\* "2024-01-15T10:00:00Z": an ISO date-time, contains 'T'
DateTimeStr(t) == [form |-> "dateTime", t |-> t]
\* "2024-01-15": an ISO date without time of day, no 'T' (t is its midnight)
DateStr(t) == [form |-> "date", t |-> t]
\* "Tuesday-ish": text with a 'T' that is no ISO timestamp
GarbageStr == [form |-> "garbage", t |-> 0]
\* None: the event carried neither dateTime nor date
NoneStr == [form |-> "none", t |-> 0]

\* 'T' in s  (raises TypeError on None)
ContainsT(s) ==
    IF s.form = "none" THEN Raise("TypeError")
    ELSE Return(s.form \in {"dateTime", "garbage"})

\* datetime.fromisoformat(s.replace('Z', '+00:00')).replace(tzinfo=None):
\* the UTC marker is dropped without conversion; a date-only string parses to
\* its midnight; anything else raises
FromIsoFormat(s) ==
    IF s.form \in {"dateTime", "date"} THEN Return(s.t)
    ELSE IF s.form = "none" THEN Raise("AttributeError")
    ELSE Raise("ValueError")

\* t.strftime('%Y-%m-%dT%H:%M:%S'): the day (relative to the requested date),
\* the hour and the minute of the instant
Strftime(t) == [day |-> t \div 1440, hh |-> (t % 1440) \div 60, mm |-> t % 60]

\* The instant a formatted slot boundary spells
SlotTime(s) == s.day * 1440 + s.hh * 60 + s.mm

-----------------------------------------------------------------------------
(* Date strings *)

\* A date argument: "<y><sep><m><sep><d><rest>", or free text (sep = "")
DateArg(y, sep, m, d, rest) == [y |-> y, sep |-> sep, m |-> m, d |-> d, rest |-> rest]

IsLeap(y) == (y % 4 = 0 /\ y % 100 # 0) \/ y % 400 = 0

DaysInMonth(y, m) ==
    IF m = 2 THEN (IF IsLeap(y) THEN 29 ELSE 28)
    ELSE IF m \in {4, 6, 9, 11} THEN 30 ELSE 31

\* Faulty variant of the date parse: any text is taken as a date
StrptimeLenient(date) == Return(0)

\* datetime.strptime(date, '%Y-%m-%d'): midnight of the date (instant 0 of the
\* model's clock), or ValueError
Strptime(date) ==
    IF /\ date.sep = "-"
       /\ date.rest = ""
       /\ date.y \in 1..9999
       /\ date.m \in 1..12
       /\ date.d \in 1..DaysInMonth(date.y, date.m)
    THEN Return(0)
    ELSE Raise("ValueError")

\* date_obj.replace(hour=h, minute=0, second=0, microsecond=0)
ReplaceHour(midnight, h) ==
    IF h \in 0..23 THEN Return(midnight + h * 60) ELSE Raise("ValueError")

-----------------------------------------------------------------------------
(* Calendar gateway *)

\* get_busy_times: the API's answer for the day, or the wrapped HttpError
GetBusyTimes(gw) ==
    IF gw.fail THEN Raise("Failed to get busy times")
    ELSE Return(gw.items)

-----------------------------------------------------------------------------
(* The free-slot finder *)

\* Faulty variant of the conversion: a date-only start is parsed like any other
ParseBusyAllDayBusy(busy) ==
    LET start == FromIsoFormat(busy.start)
        end == FromIsoFormat(busy.end)
    IN  IF start.kind = "raise" \/ end.kind = "raise" THEN <<>>
        ELSE << <<start.value, end.value>> >>

\* One round of the conversion loop: the (start, end) pair appended to
\* busy_periods for this entry, or nothing when the entry is skipped
ParseBusy(busy) ==
    LET hasT == ContainsT(busy.start)
    IN  IF hasT.kind = "raise" THEN <<>>
        ELSE IF ~hasT.value THEN <<>>
        ELSE LET start == FromIsoFormat(busy.start)
                 end == FromIsoFormat(busy.end)
             IN  IF start.kind = "raise" \/ end.kind = "raise" THEN <<>>
                 ELSE << <<start.value, end.value>> >>

RECURSIVE BusyPeriods(_)
BusyPeriods(busy_times) ==
    IF busy_times = <<>> THEN <<>>
    ELSE ParseBusy(Head(busy_times)) \o BusyPeriods(Tail(busy_times))

\* Where a stable sort by start puts x, which came after all of sorted
RECURSIVE InsertByStart(_, _)
InsertByStart(sorted, x) ==
    IF sorted = <<>> THEN <<x>>
    ELSE IF sorted[Len(sorted)][1] <= x[1] THEN Append(sorted, x)
    ELSE Append(InsertByStart(SubSeq(sorted, 1, Len(sorted) - 1), x),
                sorted[Len(sorted)])

\* Faulty variant of the sort: the periods are left in the gateway's order
SortByStartOmitted(periods) == periods

\* busy_periods.sort(key=lambda x: x[0]): stable, ascending by start
RECURSIVE SortByStart(_)
SortByStart(periods) ==
    IF periods = <<>> THEN <<>>
    ELSE InsertByStart(SortByStart(SubSeq(periods, 1, Len(periods) - 1)),
                       periods[Len(periods)])

MakeSlot(current_time, duration_minutes) ==
    [start |-> Strftime(current_time),
     end |-> Strftime(current_time + duration_minutes),
     duration_minutes |-> duration_minutes]

\* Faulty variant of the gap test: the slot must end strictly before busy_start
GapBeforeStrict(current_time, slot_duration, busy_start) ==
    current_time + slot_duration < busy_start

\* Faulty variant of the gap test: any gap will do, whatever the duration
GapBeforeAnyGap(current_time, slot_duration, busy_start) ==
    current_time <= busy_start

\* if current_time + slot_duration <= busy_start
GapBefore(current_time, slot_duration, busy_start) ==
    current_time + slot_duration <= busy_start

\* Faulty variant of the advance: the cursor jumps to the end of the busy period
AdvanceToEnd(current_time, busy_end) == busy_end

\* Faulty variant of the advance: the cursor is left where it was
AdvanceSkipped(current_time, busy_end) == current_time

\* current_time = max(current_time, busy_end)
Advance(current_time, busy_end) ==
    IF busy_end > current_time THEN busy_end ELSE current_time

\* Faulty variant of the tail test: the slot must end strictly before end_of_day
TailFitsStrict(current_time, slot_duration, end_of_day) ==
    current_time + slot_duration < end_of_day

\* if current_time + slot_duration <= end_of_day
TailFits(current_time, slot_duration, end_of_day) ==
    current_time + slot_duration <= end_of_day

\* The loop over the sorted busy periods: the slots appended and the cursor
\* it ends with
RECURSIVE Sweep(_, _, _, _)
Sweep(busy_periods, current_time, duration_minutes, available_slots) ==
    IF busy_periods = <<>>
    THEN [current_time |-> current_time, available_slots |-> available_slots]
    ELSE LET busy_start == Head(busy_periods)[1]
             busy_end == Head(busy_periods)[2]
         IN  Sweep(Tail(busy_periods),
                   Advance(current_time, busy_end),
                   duration_minutes,
                   IF GapBefore(current_time, duration_minutes, busy_start)
                   THEN Append(available_slots,
                               MakeSlot(current_time, duration_minutes))
                   ELSE available_slots)

\* available_slots as it stands before the return: the sweep's slots and the
\* slot after the last busy period
Candidates(busy_times, duration_minutes, start_of_day, end_of_day) ==
    LET swept == Sweep(SortByStart(BusyPeriods(busy_times)), start_of_day,
                       duration_minutes, <<>>)
    IN  IF TailFits(swept.current_time, duration_minutes, end_of_day)
        THEN Append(swept.available_slots,
                    MakeSlot(swept.current_time, duration_minutes))
        ELSE swept.available_slots

\* Faulty variant of the cut: the last five are kept
FirstFiveLast(available_slots) ==
    SubSeq(available_slots,
           Len(available_slots) - Min(MaxSlots, Len(available_slots)) + 1,
           Len(available_slots))

\* available_slots[:5]
FirstFive(available_slots) ==
    SubSeq(available_slots, 1, Min(MaxSlots, Len(available_slots)))

\* CalendarService.suggest_time_slots: the slot list, or the wrapped error
SuggestTimeSlots(date, duration_minutes, preferred_start_hour, preferred_end_hour, gw) ==
    LET busy_times == GetBusyTimes(gw)
        date_obj == Strptime(date)
        FailedWith(e) == Raise("Failed to suggest time slots")
    IN  IF busy_times.kind = "raise" THEN FailedWith(busy_times)
        ELSE IF date_obj.kind = "raise" THEN FailedWith(date_obj)
        ELSE LET start_of_day == ReplaceHour(date_obj.value, preferred_start_hour)
                 end_of_day == ReplaceHour(date_obj.value, preferred_end_hour)
             IN  IF start_of_day.kind = "raise" THEN FailedWith(start_of_day)
                 ELSE IF end_of_day.kind = "raise" THEN FailedWith(end_of_day)
                 ELSE Return(FirstFive(Candidates(busy_times.value,
                                                  duration_minutes,
                                                  start_of_day.value,
                                                  end_of_day.value)))

-----------------------------------------------------------------------------
(* The other gateway operations of CalendarService *)

\* check_availability: free when the API lists no event in the range
CheckAvailability(start_time, end_time, gw) ==
    IF gw.fail THEN Raise("Failed to check availability")
    ELSE Return(Len(gw.items) = 0)

\* create_event: the created event as the API echoes it; a response lacking
\* a field the code indexes raises KeyError, which create_event does not wrap
CreateEvent(summary, start_time, end_time, description, attendee_email, gw) ==
    IF gw.fail THEN Raise("Failed to create event")
    ELSE IF ~gw.complete THEN Raise("KeyError")
    ELSE Return([id |-> "event-id", summary |-> summary, start |-> start_time,
                 end |-> end_time, html_link |-> "", status |-> "confirmed"])

\* get_events: the upcoming events; an event lacking 'id' raises KeyError
GetEvents(max_results, gw) ==
    IF gw.fail THEN Raise("Failed to get events")
    ELSE IF ~gw.complete /\ gw.items # <<>> THEN Raise("KeyError")
    ELSE Return(SubSeq(gw.items, 1, Min(max_results, Len(gw.items))))

-----------------------------------------------------------------------------
(* The orchestrator *)

\* arguments.get(key, default)
Get(args, key, default) ==
    IF Has(args, key) THEN args[key] ELSE default

\* The body of the try block of _execute_function: the dict it returns, or
\* the exception that leaves it (a message that counts items is kept as the
\* count)
ExecuteBody(name, args, gw) ==
    IF name = "check_availability" THEN
        IF ~Has(args, "start_time") \/ ~Has(args, "end_time")
        THEN Raise("KeyError")
        ELSE LET is_available ==
                     CheckAvailability(args.start_time, args.end_time, gw)
             IN  IF is_available.kind = "raise" THEN is_available
                 ELSE Return([success |-> TRUE,
                              available |-> is_available.value,
                              message |-> IF is_available.value
                                          THEN "Time slot is available"
                                          ELSE "Time slot is not available"])
    ELSE IF name = "suggest_time_slots" THEN
        IF ~Has(args, "date") THEN Raise("KeyError")
        ELSE LET slots ==
                     SuggestTimeSlots(
                         args.date,
                         Get(args, "duration_minutes", DefaultDuration),
                         Get(args, "preferred_start_hour", DefaultStartHour),
                         Get(args, "preferred_end_hour", DefaultEndHour),
                         gw)
             IN  IF slots.kind = "raise" THEN slots
                 ELSE Return([success |-> TRUE, slots |-> slots.value,
                              message |-> Len(slots.value)])
    ELSE IF name = "create_appointment" THEN
        IF \/ ~Has(args, "summary")
           \/ ~Has(args, "start_time")
           \/ ~Has(args, "end_time")
        THEN Raise("KeyError")
        ELSE LET event ==
                     CreateEvent(args.summary, args.start_time, args.end_time,
                                 Get(args, "description", ""),
                                 Get(args, "attendee_email", ""), gw)
             IN  IF event.kind = "raise" THEN event
                 ELSE Return([success |-> TRUE, event |-> event.value,
                              message |-> "Appointment created successfully"])
    ELSE IF name = "get_upcoming_events" THEN
        LET events == GetEvents(Get(args, "max_results", DefaultMaxResults), gw)
        IN  IF events.kind = "raise" THEN events
            ELSE Return([success |-> TRUE, events |-> events.value,
                         message |-> Len(events.value)])
    ELSE Return([success |-> FALSE, error |-> "Unknown function"])

\* Faulty variant of the dispatch: no except clause around the body
ExecuteFunctionUncaught(name, args, gw) == ExecuteBody(name, args, gw)

\* CalendarAIAgent._execute_function: try: <body> except Exception as e:
\* return {"success": False, "error": str(e)}
ExecuteFunction(name, args, gw) ==
    LET body == ExecuteBody(name, args, gw)
    IN  IF body.kind = "raise"
        THEN Return([success |-> FALSE, error |-> body.error])
        ELSE body

-----------------------------------------------------------------------------
(* Requests and gateway answers the model tries *)

SeqsUpTo(S, n) == UNION {[1..k -> S] : k \in 0..n}

Busy(start, end) == [start |-> start, end |-> end]

\* Events with ISO start and end, the end not necessarily after the start
TimedEntries == {Busy(DateTimeStr(s), DateTimeStr(e)) : s \in Times, e \in Times}

\* An all-day event, and events whose start or end does not parse
AllDayEntry == Busy(DateStr(0), DateStr(1440))
MalformedEntries ==
    {Busy(GarbageStr, DateTimeStr((DefaultStartHour + 1) * 60)),
     Busy(DateTimeStr(DefaultStartHour * 60), GarbageStr),
     Busy(DateTimeStr(DefaultStartHour * 60), NoneStr),
     Busy(NoneStr, NoneStr)}

\* An event with an ISO start and a date-only end: it parses, to the midnight
\* the date spells
DateEndEntry == Busy(DateTimeStr(DefaultStartHour * 60), DateStr(1440))

BusyEntries ==
    TimedEntries \cup {AllDayEntry, DateEndEntry} \cup MalformedEntries

\* A day of half-hour meetings, one at half past each hour of hrs, as the API
\* lists them (orderBy=startTime)
RECURSIVE MeetingsFrom(_, _)
MeetingsFrom(h, hrs) ==
    IF h >= DefaultEndHour THEN <<>>
    ELSE (IF h \in hrs
          THEN <<Busy(DateTimeStr(h * 60 + 30), DateTimeStr(h * 60 + 60))>>
          ELSE <<>>) \o MeetingsFrom(h + 1, hrs)

GoodDate == DateArg(2024, "-", 1, 15, "")
BadDates ==
    {DateArg(2024, "/", 1, 15, ""),      \* 2024/01/15
     DateArg(2024, "-", 2, 30, ""),      \* 2024-02-30
     DateArg(2024, "-", 13, 1, ""),      \* 2024-13-01
     DateArg(2024, "-", 1, 15, "T10"),   \* 2024-01-15T10
     DateArg(0, "", 0, 0, "tomorrow")}   \* tomorrow

Answer(fail, items, complete) ==
    [fail |-> fail, items |-> items, complete |-> complete]

TimeArgs == {DateTimeStr(t) : t \in Times}

-----------------------------------------------------------------------------
(* The state machine: one request, dispatched once *)

NoResult == [kind |-> "none"]

Request(name, args, gw) ==
    /\ function_name = name
    /\ arguments = args
    /\ gateway = gw

FinderCall(d, sh, eh, items) ==
    Request("suggest_time_slots",
            [date |-> GoodDate, duration_minutes |-> d,
             preferred_start_hour |-> sh, preferred_end_hour |-> eh],
            Answer(FALSE, items, TRUE))

\* suggest_time_slots with every argument given, on any short busy list
FinderRequest ==
    \E d \in Durations, sh \in WindowHours, eh \in WindowHours, n \in 0..MaxBusy :
        /\ sh < eh
        /\ \E items \in [1..n -> BusyEntries] : FinderCall(d, sh, eh, items)

\* suggest_time_slots over the default window, on any short busy list
DefaultWindowRequest ==
    \E d \in Durations, n \in 0..MaxBusy :
        \E items \in [1..n -> BusyEntries] :
            Request("suggest_time_slots",
                    [date |-> GoodDate, duration_minutes |-> d],
                    Answer(FALSE, items, TRUE))

\* suggest_time_slots for a window that does not start before it ends, on
\* shorter lists
InvalidWindowRequest ==
    \E d \in Durations, sh \in WindowHours, eh \in WindowHours,
       n \in 0..(MaxBusy - 1) :
        /\ sh >= eh
        /\ \E items \in [1..n -> BusyEntries] : FinderCall(d, sh, eh, items)

\* suggest_time_slots over the default window on a day of meetings
FullDayRequest ==
    \E d \in {DefaultDuration \div 2, DefaultDuration},
       hrs \in SUBSET (DefaultStartHour .. (DefaultEndHour - 1)) :
        Request("suggest_time_slots",
                [date |-> GoodDate, duration_minutes |-> d],
                Answer(FALSE, MeetingsFrom(DefaultStartHour, hrs), TRUE))

\* Two overlapping meetings, 09:00-09:30 and 09:15-10:00
OverlappingMeetings ==
    <<Busy(DateTimeStr(DefaultStartHour * 60), DateTimeStr(DefaultStartHour * 60 + 30)),
      Busy(DateTimeStr(DefaultStartHour * 60 + 15), DateTimeStr(DefaultStartHour * 60 + 60))>>

\* suggest_time_slots over the default window on the two overlapping meetings
OverlapRequest ==
    \E d \in Durations :
        Request("suggest_time_slots",
                [date |-> GoodDate, duration_minutes |-> d],
                Answer(FALSE, OverlappingMeetings, TRUE))

\* suggest_time_slots that cannot run to the sweep: a bad date, an hour that
\* is no hour, a failing gateway, a missing date
FailingRequest ==
    \/ \E date \in BadDates \cup {GoodDate}, sh \in {DefaultStartHour, 24},
          fail \in BOOLEAN, items \in SeqsUpTo(BusyEntries, 1) :
           /\ date # GoodDate \/ sh = 24 \/ fail
           /\ Request("suggest_time_slots",
                      [date |-> date, duration_minutes |-> DefaultDuration,
                       preferred_start_hour |-> sh,
                       preferred_end_hour |-> DefaultEndHour],
                      Answer(fail, items, TRUE))
    \/ \E fail \in BOOLEAN, items \in SeqsUpTo(BusyEntries, 1) :
           \/ Request("suggest_time_slots",
                      [duration_minutes |-> DefaultDuration],
                      Answer(fail, items, TRUE))
           \/ /\ fail
              /\ Request("suggest_time_slots", [date |-> GoodDate],
                         Answer(fail, items, TRUE))
           \/ Request("suggest_time_slots",
                      [date |-> DateArg(0, "", 0, 0, "tomorrow")],
                      Answer(fail, items, TRUE))

CheckAvailabilityRequest ==
    \E s \in TimeArgs, e \in TimeArgs, fail \in BOOLEAN,
       items \in SeqsUpTo(BusyEntries, 1) :
        \/ Request("check_availability", [start_time |-> s, end_time |-> e],
                   Answer(fail, items, TRUE))
        \/ Request("check_availability", [start_time |-> s],
                   Answer(fail, items, TRUE))
        \/ Request("check_availability", [end_time |-> e],
                   Answer(fail, items, TRUE))

CreateAppointmentRequest ==
    \E s \in TimeArgs, e \in TimeArgs, fail \in BOOLEAN, complete \in BOOLEAN :
        \/ Request("create_appointment",
                   [summary |-> "Meeting", start_time |-> s, end_time |-> e],
                   Answer(fail, <<>>, complete))
        \/ Request("create_appointment",
                   [summary |-> "Meeting", start_time |-> s, end_time |-> e,
                    description |-> "weekly", attendee_email |-> "a@b.c"],
                   Answer(fail, <<>>, complete))
        \/ Request("create_appointment", [start_time |-> s, end_time |-> e],
                   Answer(fail, <<>>, complete))
        \/ Request("create_appointment", [summary |-> "Meeting", end_time |-> e],
                   Answer(fail, <<>>, complete))

OtherRequest ==
    \E name \in {"get_upcoming_events", "delete_event", ""},
       fail \in BOOLEAN, complete \in BOOLEAN,
       items \in SeqsUpTo(BusyEntries, 1) :
        \/ Request(name, [max_results |-> 1], Answer(fail, items, complete))
        \/ Request(name, [limit |-> 1], Answer(fail, items, complete))

Init ==
    /\ \/ FinderRequest
       \/ DefaultWindowRequest
       \/ InvalidWindowRequest
       \/ FullDayRequest
       \/ OverlapRequest
       \/ FailingRequest
       \/ CheckAvailabilityRequest
       \/ CreateAppointmentRequest
       \/ OtherRequest
    /\ pc = "call"
    /\ result = NoResult
    /\ SessionStart

Dispatch ==
    /\ pc = "call"
    /\ result' = ExecuteFunction(function_name, arguments, gateway)
    /\ pc' = "done"
    /\ UNCHANGED <<function_name, arguments, gateway>>
    /\ UNCHANGED session

ExecCheckAvailability == function_name = "check_availability" /\ Dispatch

ExecSuggestTimeSlots == function_name = "suggest_time_slots" /\ Dispatch

ExecCreateAppointment == function_name = "create_appointment" /\ Dispatch

ExecGetUpcomingEvents == function_name = "get_upcoming_events" /\ Dispatch

ExecUnknown ==
    /\ function_name \notin {"check_availability", "suggest_time_slots",
                             "create_appointment", "get_upcoming_events"}
    /\ Dispatch

Next ==
    \/ ExecCheckAvailability
    \/ ExecSuggestTimeSlots
    \/ ExecCreateAppointment
    \/ ExecGetUpcomingEvents
    \/ ExecUnknown

Spec == Init /\ [][Next]_vars

-----------------------------------------------------------------------------
(* The chat page: one session of app.py.  The script runs once per UI event *)
(* and a session runs one script at a time, so an event is taken only when  *)
(* no run is under way; within a run the steps are the points where the     *)
(* script waits: a call of process_message, or a button's answer.           *)

MaxMessages == 6

Message(role, content) == [role |-> role, content |-> content]

\* The prompts of the four quick-action buttons
QuickPrompts ==
    {"today's schedule", "tomorrow's slots", "upcoming events", "new meeting"}

RoomFor(n) == Len(messages) + n <= MaxMessages

\* While the page runs, the request variables stand still at these values
NoRequest ==
    /\ function_name = "none"
    /\ arguments = <<>>
    /\ gateway = Answer(FALSE, <<>>, TRUE)
    /\ pc = "done"
    /\ result = NoResult

InitUI == SessionStart /\ NoRequest

\* The user submits the chat input: the prompt is appended and
\* process_message is called
ChatSubmit ==
    /\ ui_pc = "idle"
    /\ RoomFor(3)
    /\ messages' = Append(messages, Message("user", "prompt"))
    /\ in_progress' = in_progress + 1
    /\ ui_pc' = "chat_call"
    /\ UNCHANGED <<slots_shown, request>>

\* process_message returns (it never raises); a successful result with
\* suggested slots draws one 'Book #i' button per slot
ChatReturn ==
    /\ ui_pc = "chat_call"
    /\ in_progress' = in_progress - 1
    /\ \E success \in BOOLEAN, n \in 0..MaxSlots :
           slots_shown' = IF success THEN n ELSE 0
    /\ ui_pc' = "chat_display"
    /\ UNCHANGED <<messages, request>>

\* Faulty variant: the buttons answer while the chat call is still running
BookButtonShownEarly == ui_pc \in {"chat_call", "chat_display"}

\* The script has reached st.button(f"Book #{i}") for some slot
BookButtonShown == ui_pc = "chat_display" /\ slots_shown > 0

\* st.button answers True: the booking prompt is appended and process_message
\* is called for it
BookClick ==
    /\ BookButtonShown
    /\ messages' = Append(messages, Message("user", "book_prompt"))
    /\ in_progress' = in_progress + 1
    /\ ui_pc' = "book_call"
    /\ UNCHANGED <<slots_shown, request>>

\* The booking call returns: on success its response is appended and
\* st.rerun() ends the run there; otherwise the script goes on
BookReturn ==
    /\ ui_pc = "book_call"
    /\ in_progress' = in_progress - 1
    /\ \/ /\ messages' = Append(messages, Message("assistant", "book_response"))
          /\ ui_pc' = "idle"
          /\ slots_shown' = 0
       \/ /\ ui_pc' = "chat_rest"
          /\ UNCHANGED <<messages, slots_shown>>
    /\ UNCHANGED request

\* The rest of the chat handler: the response (or the apology of the except
\* clause) is appended to the history
FinishChat ==
    /\ ui_pc \in {"chat_display", "chat_rest"}
    /\ messages' = Append(messages, Message("assistant", "response"))
    /\ ui_pc' = "idle"
    /\ slots_shown' = 0
    /\ UNCHANGED <<in_progress, request>>

\* A quick-action button: its prompt is appended and the page is rerun
QuickAction ==
    /\ ui_pc = "idle"
    /\ RoomFor(1)
    /\ \E quick_prompt \in QuickPrompts :
           messages' = Append(messages, Message("user", quick_prompt))
    /\ UNCHANGED <<ui_pc, in_progress, slots_shown, request>>

\* The clear-chat button
ClearChat ==
    /\ ui_pc = "idle"
    /\ messages' = <<>>
    /\ UNCHANGED <<ui_pc, in_progress, slots_shown, request>>

NextUI ==
    \/ ChatSubmit
    \/ ChatReturn
    \/ BookClick
    \/ BookReturn
    \/ FinishChat
    \/ QuickAction
    \/ ClearChat

SpecUI == InitUI /\ [][NextUI]_vars

-----------------------------------------------------------------------------
(* What the properties speak of *)

FinderCalled == pc = "done" /\ function_name = "suggest_time_slots"

\* suggest_time_slots returned a slot list
FinderReturned ==
    /\ FinderCalled
    /\ result.kind = "return"
    /\ result.value.success

Slots == result.value.slots

Duration == Get(arguments, "duration_minutes", DefaultDuration)
StartHour == Get(arguments, "preferred_start_hour", DefaultStartHour)
EndHour == Get(arguments, "preferred_end_hour", DefaultEndHour)
WindowStart == StartHour * 60
WindowEnd == EndHour * 60

SlotStart(i) == SlotTime(Slots[i].start)
SlotEnd(i) == SlotTime(Slots[i].end)

\* An entry the conversion is to drop: all-day (date-only start), or with a
\* start or an end that is missing or is no timestamp
Dropped(busy) ==
    \/ busy.start.form # "dateTime"
    \/ busy.end.form \in {"garbage", "none"}

Kept(busy) == ~Dropped(busy)

\* The instants of a kept entry
StartOf(busy) == busy.start.t
EndOf(busy) == busy.end.t

-----------------------------------------------------------------------------
(* C1 *)

\* C1: every slot suggest_time_slots returns for a window with start hour
\* before end hour lies within the window: it starts at or after the window's
\* start and ends at or before the window's end.
C1_SlotsWithinWindow ==
    (FinderReturned /\ StartHour < EndHour) =>
        \A i \in 1..Len(Slots) :
            WindowStart <= SlotStart(i) /\ SlotEnd(i) <= WindowEnd

-----------------------------------------------------------------------------
(* C2 *)

\* C2: no returned slot overlaps a parsed busy interval: for each slot
\* [s, s + duration) and each kept entry [b.start, b.end), the slot ends at
\* or before b.start or starts at or after b.end.
C2_NoSlotOverlapsBusy ==
    FinderReturned =>
        \A i \in 1..Len(Slots) :
            \A k \in 1..Len(gateway.items) :
                Kept(gateway.items[k]) =>
                    \/ SlotStart(i) + Duration <= StartOf(gateway.items[k])
                    \/ EndOf(gateway.items[k]) <= SlotStart(i)

\* A slot is returned on each side of a busy interval that lies between them
C2_Witness ==
    /\ FinderReturned
    /\ StartHour < EndHour
    /\ Len(Slots) = 2
    /\ \E k \in 1..Len(gateway.items) :
        /\ Kept(gateway.items[k])
        /\ StartOf(gateway.items[k]) < EndOf(gateway.items[k])
        /\ SlotEnd(1) <= StartOf(gateway.items[k])
        /\ EndOf(gateway.items[k]) <= SlotStart(2)
    /\ SlotEnd(2) <= WindowEnd

-----------------------------------------------------------------------------
(* C3 *)

\* C3: the returned slots are in strictly ascending order without overlap
\* (each starts at or after the end of the one before it) and each ends
\* duration_minutes after it starts, also when a parsed busy entry ends at or
\* before its start.
C3_SlotsAscendingDisjoint ==
    FinderReturned =>
        /\ \A i \in 1..Len(Slots) : SlotEnd(i) = SlotStart(i) + Duration
        /\ \A i \in 1..(Len(Slots) - 1) : SlotEnd(i) <= SlotStart(i + 1)

-----------------------------------------------------------------------------
(* C4 *)

KnownFunctions ==
    {"check_availability", "suggest_time_slots", "create_appointment",
     "get_upcoming_events"}

\* C4: whatever the action name, the arguments and the gateway's answer,
\* _execute_function raises nothing and returns either a dict with success
\* true and a payload or exactly {success: false, error}; an unknown action
\* name gives success false.
C4_ExecuteNeverRaises ==
    pc = "done" =>
        /\ result.kind = "return"
        /\ Has(result.value, "success")
        /\ result.value.success =>
               /\ ~Has(result.value, "error")
               /\ DOMAIN result.value # {"success"}
        /\ ~result.value.success => DOMAIN result.value = {"success", "error"}
        /\ function_name \notin KnownFunctions => ~result.value.success

\* A failure below the dispatch (the gateway's, or a missing required field)
\* came back as a value
C4_Witness ==
    /\ pc = "done"
    /\ function_name \in KnownFunctions
    /\ gateway.fail \/ ~Has(arguments, "start_time")
    /\ result.kind = "return"
    /\ ~result.value.success

-----------------------------------------------------------------------------
(* C5 *)

\* The slots the sweep and the tail test produce for the request, before the cut
CandidatesOfRequest ==
    Candidates(gateway.items, Duration, WindowStart, WindowEnd)

-----------------------------------------------------------------------------
(* C7 *)

CleanedGateway == [gateway EXCEPT !.items = SelectSeq(gateway.items, Kept)]

\* C7: malformed and all-day entries in the busy list raise no error and
\* change nothing: the call ends as it would on the same list with those
\* entries removed, and when the gateway answered and the date and hours are
\* valid it returns a slot list.
C7_MalformedEntriesDropped ==
    (FinderCalled /\ Has(arguments, "date")) =>
        /\ result = ExecuteFunction(function_name, arguments, CleanedGateway)
        /\ (/\ ~gateway.fail
            /\ arguments.date = GoodDate
            /\ StartHour \in 0..23
            /\ EndHour \in 0..23) => result.value.success

\* A list with a dropped entry and a kept one in the window, and a slot returned
C7_Witness ==
    /\ FinderReturned
    /\ StartHour < EndHour
    /\ \E k \in 1..Len(gateway.items) : Dropped(gateway.items[k])
    /\ \E k \in 1..Len(gateway.items) :
        /\ Kept(gateway.items[k])
        /\ WindowStart <= StartOf(gateway.items[k])
        /\ StartOf(gateway.items[k]) < EndOf(gateway.items[k])
        /\ EndOf(gateway.items[k]) <= WindowEnd
    /\ Len(Slots) >= 1

-----------------------------------------------------------------------------
(* C8 *)

\* C8: for a window whose start hour is not before its end hour (both hours
\* of the day) suggest_time_slots returns no non-empty slot list, whatever
\* the busy list.
C8_InvalidWindowNoSlots ==
    (/\ FinderReturned
     /\ StartHour \in 0..23
     /\ EndHour \in 0..23
     /\ StartHour >= EndHour) => Slots = <<>>

-----------------------------------------------------------------------------
(* C9 *)

\* C9: for a date that is no YYYY-MM-DD date the action ends as
\* {success: false, error} and carries no slot list, whatever the gateway
\* answered to the busy query.
C9_UnparsableDateFails ==
    (FinderCalled /\ Has(arguments, "date") /\ arguments.date \in BadDates) =>
        /\ result.kind = "return"
        /\ ~result.value.success
        /\ ~Has(result.value, "slots")
        /\ Has(result.value, "error")

\* A bad date on a call whose busy query was answered with events
C9_Witness ==
    /\ FinderCalled
    /\ Has(arguments, "date")
    /\ arguments.date \in BadDates
    /\ ~gateway.fail
    /\ gateway.items # <<>>
    /\ ~result.value.success

-----------------------------------------------------------------------------
(* C10 *)

\* C10: on an empty busy list the finder returns exactly one slot, starting
\* at the window's start, when the duration is at most the window's width
\* (so a window exactly duration wide gives the slot equal to the window),
\* and no slot otherwise; the window is not tiled.
C10_EmptyBusyOneSlot ==
    (FinderReturned /\ gateway.items = <<>>) =>
        IF Duration <= WindowEnd - WindowStart
        THEN /\ Len(Slots) = 1
             /\ SlotStart(1) = WindowStart
             /\ SlotEnd(1) = WindowStart + Duration
             /\ (Duration = WindowEnd - WindowStart => SlotEnd(1) = WindowEnd)
        ELSE Slots = <<>>

\* An empty busy list and a window exactly duration wide
C10_Witness ==
    /\ FinderReturned
    /\ gateway.items = <<>>
    /\ Duration = WindowEnd - WindowStart
    /\ Len(Slots) = 1
    /\ SlotEnd(1) = WindowEnd

-----------------------------------------------------------------------------
(* The sweep of the request, step by step *)

\* busy_periods after the sort
SortedPeriods == SortByStart(BusyPeriods(gateway.items))

\* The cursor and the slots after the loop has processed the first k periods
SweptThrough(k) ==
    Sweep(SubSeq(SortedPeriods, 1, k), WindowStart, Duration, <<>>)

\* Every kept entry ends after it starts
AllWellFormed ==
    \A k \in 1..Len(gateway.items) :
        Kept(gateway.items[k]) =>
            StartOf(gateway.items[k]) < EndOf(gateway.items[k])

-----------------------------------------------------------------------------
(* C11 *)

\* C11: when the busy list is one interval that covers the whole window (it
\* starts at or before the window's start and ends at or after its end), the
\* finder returns no slot, for either duration.
C11_CoveredWindowNoSlots ==
    (/\ FinderReturned
     /\ Len(gateway.items) = 1
     /\ Kept(gateway.items[1])
     /\ StartOf(gateway.items[1]) <= WindowStart
     /\ EndOf(gateway.items[1]) >= WindowEnd) => Slots = <<>>

\* One interval covering a window that starts before it ends
C11_Witness ==
    /\ FinderReturned
    /\ StartHour < EndHour
    /\ Len(gateway.items) = 1
    /\ Kept(gateway.items[1])
    /\ StartOf(gateway.items[1]) <= WindowStart
    /\ EndOf(gateway.items[1]) >= WindowEnd
    /\ Slots = <<>>

-----------------------------------------------------------------------------
(* C12 *)

\* C12: for one busy interval (start before end) with room for a slot between
\* the window's start and its start and between its end and the window's end,
\* the finder returns exactly two slots, the first at the window's start and
\* the second at the interval's end; the rest of the free time is not tiled.
C12_OneBusyTwoSlots ==
    (/\ FinderReturned
     /\ Len(gateway.items) = 1
     /\ Kept(gateway.items[1])
     /\ StartOf(gateway.items[1]) < EndOf(gateway.items[1])
     /\ WindowStart + Duration <= StartOf(gateway.items[1])
     /\ EndOf(gateway.items[1]) + Duration <= WindowEnd) =>
        /\ Len(Slots) = 2
        /\ SlotStart(1) = WindowStart
        /\ SlotEnd(1) = WindowStart + Duration
        /\ SlotStart(2) = EndOf(gateway.items[1])
        /\ SlotEnd(2) = EndOf(gateway.items[1]) + Duration

\* Window 09:00-17:00, duration 60, busy 10:00-11:00: 09:00-10:00 and 11:00-12:00
C12_Witness ==
    /\ FinderReturned
    /\ WindowStart = 9 * 60
    /\ WindowEnd = 17 * 60
    /\ Duration = 60
    /\ gateway.items = <<Busy(DateTimeStr(10 * 60), DateTimeStr(11 * 60))>>
    /\ Len(Slots) = 2
    /\ Slots[1].start = [day |-> 0, hh |-> 9, mm |-> 0]
    /\ Slots[1].end = [day |-> 0, hh |-> 10, mm |-> 0]
    /\ Slots[2].start = [day |-> 0, hh |-> 11, mm |-> 0]
    /\ Slots[2].end = [day |-> 0, hh |-> 12, mm |-> 0]

-----------------------------------------------------------------------------
(* C13 *)

\* Sorted periods with every run of overlapping or nested ones replaced by
\* its union (the explicit merge that the sweep is said to make needless)
RECURSIVE MergeSorted(_)
MergeSorted(periods) ==
    IF Len(periods) <= 1 THEN periods
    ELSE LET merged == MergeSorted(SubSeq(periods, 1, Len(periods) - 1))
             last == merged[Len(merged)]
             p == periods[Len(periods)]
         IN  IF p[1] < last[2]
             THEN [merged EXCEPT ![Len(merged)] =
                       <<last[1], IF p[2] > last[2] THEN p[2] ELSE last[2]>>]
             ELSE Append(merged, p)

\* What the loop, the tail test and the cut give for a list of periods
SlotsOver(periods) ==
    LET swept == Sweep(periods, WindowStart, Duration, <<>>)
    IN  FirstFive(IF TailFits(swept.current_time, Duration, WindowEnd)
                  THEN Append(swept.available_slots,
                              MakeSlot(swept.current_time, Duration))
                  ELSE swept.available_slots)

\* C13: when every busy interval starts before it ends, the slot list the
\* finder returns is the one the same sweep gives over the intervals merged
\* into their unions; and for busy 09:00-09:30, 09:15-10:00 with the window
\* starting at 09:00 the loop emits no slot at either interval, leaves the
\* cursor at 10:00, and the first slot returned starts at 10:00.
C13_SweepEqualsMerged ==
    /\ (FinderReturned /\ AllWellFormed) =>
           Slots = SlotsOver(MergeSorted(SortedPeriods))
    /\ (FinderReturned /\ gateway.items = OverlappingMeetings
                       /\ WindowStart = 9 * 60) =>
           /\ SweptThrough(1).available_slots = <<>>
           /\ SweptThrough(2).available_slots = <<>>
           /\ SweptThrough(2).current_time = 10 * 60
           /\ Len(Slots) >= 1
           /\ SlotStart(1) = 10 * 60

\* Scenario B: the two overlapping meetings, merged into one period, and the
\* first slot at 10:00
C13_Witness ==
    /\ FinderReturned
    /\ gateway.items = OverlappingMeetings
    /\ WindowStart = 9 * 60
    /\ Len(MergeSorted(SortedPeriods)) = 1
    /\ Len(SortedPeriods) = 2
    /\ Slots # <<>>
    /\ Slots[1].start = [day |-> 0, hh |-> 10, mm |-> 0]

-----------------------------------------------------------------------------
(* C14 *)

\* C14: in a window that starts before it ends, with busy intervals that
\* start before they end, once the loop has processed an interval ending at
\* or after the window's end no further slot is emitted: the list returned
\* is what the loop had collected up to that interval, whatever follows it.
C14_NoSlotAfterWindowCovered ==
    (FinderReturned /\ StartHour < EndHour /\ AllWellFormed) =>
        \A k \in 1..Len(SortedPeriods) :
            SortedPeriods[k][2] >= WindowEnd =>
                Slots = FirstFive(SweptThrough(k).available_slots)

-----------------------------------------------------------------------------
(* C15 *)

\* C15: the loop emits at most one slot per busy period and the tail at most
\* one more, so there are at most len(busy periods) + 1 candidates; at each
\* period the loop appends one slot of the full duration at the cursor
\* exactly when cursor + duration <= the period's start, and nothing when
\* the gap is shorter; every slot returned has the full duration.
C15_OneSlotPerGap ==
    FinderReturned =>
        /\ Len(CandidatesOfRequest) <= Len(SortedPeriods) + 1
        /\ Len(Slots) <= Len(SortedPeriods) + 1
        /\ \A i \in 1..Len(Slots) :
               /\ SlotEnd(i) - SlotStart(i) = Duration
               /\ Slots[i].duration_minutes = Duration
        /\ \A k \in 1..Len(SortedPeriods) :
               LET before == SweptThrough(k - 1)
                   after == SweptThrough(k)
               IN  IF before.current_time + Duration <= SortedPeriods[k][1]
                   THEN /\ Len(after.available_slots) =
                               Len(before.available_slots) + 1
                        /\ SubSeq(after.available_slots, 1,
                                  Len(before.available_slots)) =
                               before.available_slots
                        /\ SlotTime(after.available_slots[
                               Len(after.available_slots)].start) =
                               before.current_time
                        /\ SlotTime(after.available_slots[
                               Len(after.available_slots)].end) =
                               before.current_time + Duration
                   ELSE after.available_slots = before.available_slots

\* One busy interval that leaves a gap shorter than the duration after the
\* window's start: no slot in the gap, the only slot is the one after it
C15_Witness ==
    /\ FinderReturned
    /\ StartHour < EndHour
    /\ Len(gateway.items) = 1
    /\ Kept(gateway.items[1])
    /\ WindowStart < StartOf(gateway.items[1])
    /\ StartOf(gateway.items[1]) < WindowStart + Duration
    /\ StartOf(gateway.items[1]) < EndOf(gateway.items[1])
    /\ Len(Slots) = 1
    /\ SlotStart(1) = EndOf(gateway.items[1])

-----------------------------------------------------------------------------
(* C17 *)

\* The orders of a list of n entries that exchange two of them (every other
\* order is a succession of these)
Orders(n) ==
    {[i \in 1..n |-> IF i = a THEN b ELSE IF i = b THEN a ELSE i] :
         a \in 1..n, b \in 1..n}

\* The gateway listing the same entries in the order f
Reordered(f) ==
    [gateway EXCEPT !.items = [i \in 1..Len(gateway.items) |->
                                   gateway.items[f[i]]]]

\* C17: the slot list does not depend on the order in which the gateway
\* lists the busy entries: the same call against the same list with any two
\* of its entries exchanged (equal starts and entries ending at or before
\* their start included) returns the same result.
C17_OrderIndependent ==
    FinderReturned =>
        \A f \in Orders(Len(gateway.items)) :
            ExecuteFunction(function_name, arguments, Reordered(f)) = result

-----------------------------------------------------------------------------
(* C16 *)

-----------------------------------------------------------------------------
(* C18 *)

\* C18: the session history never holds two user messages in a row: every
\* user message is followed by an assistant message before the next user
\* message is appended.
C18_RolesAlternate ==
    \A i \in 1..(Len(messages) - 1) :
        ~(messages[i].role = "user" /\ messages[i + 1].role = "user")

=============================================================================
